---- MODULE Spec2Model ----
(***************************************************************************)
(* Model of WeightDiffusionMapGenerator (src/main.py): a grid of squares   *)
(* that is dug out one square at a time, the next square being drawn at    *)
(* random with probability proportional to its weight.                     *)
(*                                                                         *)
(* A position is a pair <<x, y>>.  The two numpy arrays of shape           *)
(* (width, height) are functions over Cells(width, height).                *)
(***************************************************************************)
EXTENDS Integers, Naturals, Sequences, FiniteSets, TLC

VARIABLES width, height, empty, weights, current_position,
          constructed, err, op, chosen_index, digs, ret, twin

vars == <<width, height, empty, weights, current_position,
          constructed, err, op, chosen_index, digs, ret, twin>>

(***************************************************************************)
(* Bounds of the model.                                                    *)
(***************************************************************************)
\* grids of at most MaxCells squares are explored to exhaustion
MaxCells == 9
\* on the large grids of BigDims at most MaxBigDigs squares are dug
MaxBigDigs == 3
\* the iteration orders of a set that are tried: rotations 0..MaxRot of the
\* ascending and of the descending enumeration
MaxRot == 1

BigDims == {<<4, 4>>, <<5, 5>>}

\* the dimensions tried: from -1 (numpy rejects a negative shape) upwards
SmallDims == {d \in (-1..MaxCells) \X (-1..MaxCells) :
                 d[1] <= 0 \/ d[2] <= 0 \/ d[1] * d[2] <= MaxCells}

Orders == BOOLEAN \X (0..MaxRot)

(***************************************************************************)
(* Values.                                                                 *)
(***************************************************************************)
NoPosition == <<-1, -1>>
\* a probability is a fraction <<numerator, denominator>>; 0.0 / 0.0 is nan
NaN == <<0, 0>>

NoRet == [map |-> <<>>, weights |-> <<>>, walls |-> {}, pos |-> NoPosition]

Cells(w, h) == (0..(w - 1)) \X (0..(h - 1))

\* numpy accepts an index i on an axis of size n when -n <= i < n
IndexValid(i, n) == -n <= i /\ i < n

\* np.full rejects a shape with a negative dimension
NegativeDimensions(w, h) == w < 0 \/ h < 0

(***************************************************************************)
(* __neighbouring_wall_positions: the two nested loops over [-1, 0, 1],    *)
(* k = 3 * (index of dx) + (index of dy) counting the iterations.          *)
(***************************************************************************)
\* offsets with a slip in the first entry
OffsetsWide == <<-2, 0, 1>>
Offsets == <<-1, 0, 1>>

RECURSIVE WallScan(_, _, _, _, _, _)
WallScan(em, w, h, x, y, k) ==
    IF k >= 9 THEN {}
    ELSE LET dx == Offsets[(k \div 3) + 1]
             dy == Offsets[(k % 3) + 1]
             offset_x == x + dx
             offset_y == y + dy
             in_bounds_offset_x == 0 <= offset_x /\ offset_x < w
             in_bounds_offset_y == 0 <= offset_y /\ offset_y < h
             in_bounds == in_bounds_offset_x /\ in_bounds_offset_y
         IN  (IF in_bounds /\ ~em[<<offset_x, offset_y>>]
                 THEN {<<offset_x, offset_y>>} ELSE {})
             \cup WallScan(em, w, h, x, y, k + 1)

NeighbouringWallPositionsNoSelf(em, w, h, x, y) ==
    WallScan(em, w, h, x, y, 0) \ {<<x, y>>}
NeighbouringWallPositions(em, w, h, x, y) == WallScan(em, w, h, x, y, 0)

(***************************************************************************)
(* The order in which a Python set of positions is iterated is not fixed   *)
(* by the language: an order is drawn from a family of enumerations.       *)
(***************************************************************************)
FlatIndex(p, w) == p[1] + p[2] * w

RECURSIVE Ascending(_, _)
Ascending(S, w) ==
    IF S = {} THEN <<>>
    ELSE LET m == CHOOSE p \in S : \A q \in S : FlatIndex(p, w) <= FlatIndex(q, w)
         IN  <<m>> \o Ascending(S \ {m}, w)

Reverse(s) == [i \in 1..Len(s) |-> s[Len(s) + 1 - i]]

Rotate(s, r) ==
    IF Len(s) = 0 THEN s
    ELSE [i \in 1..Len(s) |-> s[((i - 1 + r) % Len(s)) + 1]]

IterationOrder(S, w, ord) ==
    LET a == Ascending(S, w)
    IN  Rotate(IF ord[1] THEN Reverse(a) ELSE a, ord[2])

(***************************************************************************)
(* __init_neighbouring_weights: the loop of lines 84-86 over the walls.    *)
(***************************************************************************)
\* a loop that overwrites the weight of every neighbouring wall
RECURSIVE InitLoopOverwrite(_, _, _)
InitLoopOverwrite(wt, walls, i) ==
    IF i > Len(walls) THEN wt
    ELSE InitLoopOverwrite([wt EXCEPT ![walls[i]] = 1], walls, i + 1)

\* a loop that gives no baseline weight
RECURSIVE InitLoopSkip(_, _, _)
InitLoopSkip(wt, walls, i) ==
    IF i > Len(walls) THEN wt
    ELSE InitLoopSkip(wt, walls, i + 1)

RECURSIVE InitLoop(_, _, _)
InitLoop(wt, walls, i) ==
    IF i > Len(walls) THEN wt
    ELSE LET p == walls[i]
         IN  InitLoop(IF wt[p] = 0 THEN [wt EXCEPT ![p] = 1] ELSE wt, walls, i + 1)

InitNeighbouringWeightsKeepOwn(wt, pos, walls) == InitLoop(wt, walls, 1)
InitNeighbouringWeights(wt, pos, walls) ==
    InitLoop([wt EXCEPT ![pos] = 0], walls, 1)

(***************************************************************************)
(* __set_neighbouring_weights: the tiers of lines 96-101 and the loop.     *)
(***************************************************************************)
TierSkewed(num_walls, old) ==
    IF num_walls = 2 \/ num_walls = 7 THEN 10
    ELSE IF num_walls = 3 \/ num_walls = 6 THEN 100
    ELSE IF num_walls = 4 \/ num_walls = 5 THEN 1000
    ELSE old + 1
TierShifted(num_walls, old) ==
    IF num_walls = 2 \/ num_walls = 6 THEN 10
    ELSE IF num_walls = 3 \/ num_walls = 7 THEN 100
    ELSE IF num_walls = 4 \/ num_walls = 5 THEN 1000
    ELSE old
TierZero(num_walls, old) ==
    IF num_walls = 2 \/ num_walls = 7 THEN 10
    ELSE IF num_walls = 3 \/ num_walls = 6 THEN 100
    ELSE IF num_walls = 4 \/ num_walls = 5 THEN 1000
    ELSE 0
Tier(num_walls, old) ==
    IF num_walls = 2 \/ num_walls = 7 THEN 10
    ELSE IF num_walls = 3 \/ num_walls = 6 THEN 100
    ELSE IF num_walls = 4 \/ num_walls = 5 THEN 1000
    ELSE old

RECURSIVE SetLoop(_, _, _, _, _, _)
SetLoop(em, wt, w, h, adjacent_walls, i) ==
    IF i > Len(adjacent_walls) THEN wt
    ELSE LET p == adjacent_walls[i]
             walls == NeighbouringWallPositions(em, w, h, p[1], p[2])
             num_walls == Cardinality(walls) - 1
         IN  SetLoop(em, [wt EXCEPT ![p] = Tier(num_walls, wt[p])],
                     w, h, adjacent_walls, i + 1)

\* a scoring that counts the neighbours that are already candidates, and so
\* reads weights that the same loop writes
RECURSIVE SetLoopByWeight(_, _, _, _, _, _)
SetLoopByWeight(em, wt, w, h, adjacent_walls, i) ==
    IF i > Len(adjacent_walls) THEN wt
    ELSE LET p == adjacent_walls[i]
             walls == {q \in NeighbouringWallPositions(em, w, h, p[1], p[2]) :
                          wt[q] <= 1}
             num_walls == Cardinality(walls) - 1
         IN  SetLoopByWeight(em, [wt EXCEPT ![p] = Tier(num_walls, wt[p])],
                             w, h, adjacent_walls, i + 1)

\* a scoring that counts the wall itself among its neighbouring walls
RECURSIVE SetLoopCountSelf(_, _, _, _, _, _)
SetLoopCountSelf(em, wt, w, h, adjacent_walls, i) ==
    IF i > Len(adjacent_walls) THEN wt
    ELSE LET p == adjacent_walls[i]
             walls == NeighbouringWallPositions(em, w, h, p[1], p[2])
             num_walls == Cardinality(walls)
         IN  SetLoopCountSelf(em, [wt EXCEPT ![p] = Tier(num_walls, wt[p])],
                              w, h, adjacent_walls, i + 1)

\* a scoring that tiers only the walls that still carry the baseline weight
RECURSIVE SetLoopFreshOnly(_, _, _, _, _, _)
SetLoopFreshOnly(em, wt, w, h, adjacent_walls, i) ==
    IF i > Len(adjacent_walls) THEN wt
    ELSE LET p == adjacent_walls[i]
             walls == NeighbouringWallPositions(em, w, h, p[1], p[2])
             num_walls == Cardinality(walls) - 1
         IN  SetLoopFreshOnly(em,
                 IF wt[p] = 1 THEN [wt EXCEPT ![p] = Tier(num_walls, wt[p])] ELSE wt,
                 w, h, adjacent_walls, i + 1)

SetNeighbouringWeightsCountSelf(em, wt, w, h, adjacent_walls) ==
    SetLoopCountSelf(em, wt, w, h, adjacent_walls, 1)
SetNeighbouringWeightsFreshOnly(em, wt, w, h, adjacent_walls) ==
    SetLoopFreshOnly(em, wt, w, h, adjacent_walls, 1)
SetNeighbouringWeightsByWeight(em, wt, w, h, adjacent_walls) ==
    SetLoopByWeight(em, wt, w, h, adjacent_walls, 1)
SetNeighbouringWeights(em, wt, w, h, adjacent_walls) ==
    SetLoop(em, wt, w, h, adjacent_walls, 1)

(***************************************************************************)
(* __update_weights and __dig on an engine e = [width, height, empty,      *)
(* weights, current_position, err].                                        *)
(***************************************************************************)
UpdateWeights(e, ord) ==
    LET pos == e.current_position
        wall_positions == IterationOrder(
            NeighbouringWallPositions(e.empty, e.width, e.height, pos[1], pos[2]),
            e.width, ord)
        w1 == InitNeighbouringWeights(e.weights, pos, wall_positions)
        w2 == SetNeighbouringWeights(e.empty, w1, e.width, e.height, wall_positions)
    IN  [e EXCEPT !.weights = w2]

Dig(e, ord) ==
    LET pos == e.current_position
    IN  IF ~(IndexValid(pos[1], e.width) /\ IndexValid(pos[2], e.height))
        THEN [e EXCEPT !.err = "IndexError"]
        ELSE UpdateWeights([e EXCEPT !.empty[pos] = TRUE], ord)

(***************************************************************************)
(* __init__                                                                *)
(***************************************************************************)
Max(a, b) == IF a >= b THEN a ELSE b

\* a constructor that clamps the dimensions to at least 1
NewClamped(w, h, ord) ==
    LET cw == Max(w, 1)
        ch == Max(h, 1)
    IN  Dig([width |-> cw, height |-> ch,
             empty |-> [c \in Cells(cw, ch) |-> FALSE],
             weights |-> [c \in Cells(cw, ch) |-> 0],
             current_position |-> <<cw \div 2, ch \div 2>>,
             err |-> "none"], ord)
\* a constructor that seeds the corner instead of the middle
NewAtOrigin(w, h, ord) ==
    IF NegativeDimensions(w, h)
    THEN [width |-> w, height |-> h, empty |-> <<>>, weights |-> <<>>,
          current_position |-> NoPosition, err |-> "ValueError"]
    ELSE Dig([width |-> w, height |-> h,
              empty |-> [c \in Cells(w, h) |-> FALSE],
              weights |-> [c \in Cells(w, h) |-> 0],
              current_position |-> <<0, 0>>,
              err |-> "none"], ord)
New(w, h, ord) ==
    IF NegativeDimensions(w, h)
    THEN [width |-> w, height |-> h, empty |-> <<>>, weights |-> <<>>,
          current_position |-> NoPosition, err |-> "ValueError"]
    ELSE Dig([width |-> w, height |-> h,
              empty |-> [c \in Cells(w, h) |-> FALSE],
              weights |-> [c \in Cells(w, h) |-> 0],
              current_position |-> <<w \div 2, h \div 2>>,
              err |-> "none"], ord)

(***************************************************************************)
(* dig_next_square: flatten, normalise, draw, unravel.                     *)
(***************************************************************************)
Flatten(wt, w, h) == [i \in 1..(w * h) |-> wt[<<(i - 1) % w, (i - 1) \div w>>]]

RECURSIVE SumTo(_, _)
SumTo(s, n) == IF n = 0 THEN 0 ELSE s[n] + SumTo(s, n - 1)
Sum(s) == SumTo(s, Len(s))

\* flattened_weights /= flattened_weights.sum()
Divide(flat, total) ==
    [i \in 1..Len(flat) |-> IF total = 0 THEN NaN ELSE <<flat[i], total>>]

NormalizeGuarded(flat) ==
    IF Sum(flat) = 0 THEN [i \in 1..Len(flat) |-> <<1, Len(flat)>>]
    ELSE Divide(flat, Sum(flat))
Normalize(flat) == Divide(flat, Sum(flat))

\* np.random.choice raises ValueError when a probability is nan
ContainsNaN(p) == \E i \in 1..Len(p) : p[i][2] = 0

\* the indices (from 0) np.random.choice can return: those of positive probability
ChoiceAny(p) == {i \in 0..(Len(p) - 1) : p[i + 1][1] >= 0}
Choice(p) == {i \in 0..(Len(p) - 1) : p[i + 1][1] > 0}

UnravelIndexRowMajor(i, w, h) == <<i \div h, i % h>>
UnravelIndex(i, w, h) == <<i % w, i \div w>>

Self == [width |-> width, height |-> height, empty |-> empty,
         weights |-> weights, current_position |-> current_position,
         err |-> "none"]

\* the number of successful digs the model follows on a grid
DigCap == IF width * height <= MaxCells THEN MaxCells ELSE MaxBigDigs

DigStep(e, i, ord) ==
    Dig([e EXCEPT !.current_position = UnravelIndex(i, e.width, e.height)], ord)

(***************************************************************************)
(* Rendering: __str__ and the weights property.  A string is modelled as   *)
(* the sequence of its characters.                                         *)
(***************************************************************************)
MapSymbol(value) == IF ~value THEN "#" ELSE "."

Symbol(value) ==
    IF value = 0 THEN " "
    ELSE IF value = 1 THEN "I"
    ELSE IF value = 10 THEN "X"
    ELSE IF value = 100 THEN "D"
    ELSE IF value = 1000 THEN "M"
    ELSE "?"

\* '\n'.join(rows): rows is a sequence of strings
RECURSIVE Join(_, _)
Join(rows, i) ==
    IF i > Len(rows) THEN <<>>
    ELSE IF i = Len(rows) THEN rows[i]
    ELSE rows[i] \o <<"\n">> \o Join(rows, i + 1)

\* the rows of array.T are the columns y of the array
Str(em, w, h) ==
    Join([y \in 1..h |-> [x \in 1..w |-> MapSymbol(em[<<x - 1, y - 1>>])]], 1)

WeightsStr(wt, w, h) ==
    Join([y \in 1..h |-> [x \in 1..w |-> Symbol(wt[<<x - 1, y - 1>>])]], 1)

(***************************************************************************)
(* State after construction.                                               *)
(***************************************************************************)
InitOn(D) ==
    \E d \in D, ord \in Orders, ord2 \in Orders :
        LET e == New(d[1], d[2], ord)
        IN  /\ width = d[1]
            /\ height = d[2]
            /\ empty = e.empty
            /\ weights = e.weights
            /\ current_position = e.current_position
            /\ err = e.err
            /\ constructed = (e.err = "none")
            /\ op = "new"
            /\ chosen_index = -1
            /\ digs = 0
            /\ ret = NoRet
            /\ twin = New(d[1], d[2], ord2)

Init == InitOn(SmallDims)

InitBig == InitOn(BigDims)

(***************************************************************************)
(* dig_next_square                                                         *)
(***************************************************************************)
Probabilities == Normalize(Flatten(weights, width, height))

DigBody(i, ord) ==
    \E e \in {DigStep(Self, i, ord)} :
        /\ empty' = e.empty
        /\ weights' = e.weights
        /\ current_position' = e.current_position
        /\ err' = e.err
        /\ op' = "dig_next_square"
        /\ chosen_index' = i
        /\ digs' = digs + 1
        /\ ret' = NoRet
        /\ UNCHANGED <<width, height, constructed>>

ExhaustedBody ==
    /\ err' = "ValueError"
    /\ op' = "dig_next_square"
    /\ ret' = NoRet
    /\ UNCHANGED <<width, height, empty, weights, current_position,
                   constructed, chosen_index, digs>>

DigOk ==
    /\ constructed
    /\ digs < DigCap
    /\ ~ContainsNaN(Probabilities)
    /\ \E i \in Choice(Probabilities), ord \in Orders : DigBody(i, ord)
    /\ UNCHANGED twin

DigExhausted ==
    /\ constructed
    /\ ContainsNaN(Probabilities)
    /\ ExhaustedBody
    /\ UNCHANGED twin

DigNextSquare == DigOk \/ DigExhausted

(***************************************************************************)
(* Two engines of the same dimensions fed the same draws.                  *)
(***************************************************************************)
TwinProbabilities == Normalize(Flatten(twin.weights, twin.width, twin.height))

TwinDigOk ==
    /\ constructed
    /\ digs < DigCap
    /\ ~ContainsNaN(Probabilities)
    /\ \E i \in Choice(Probabilities), ord \in Orders, ord2 \in Orders :
          /\ DigBody(i, ord)
          /\ twin' = IF ContainsNaN(TwinProbabilities)
                        THEN [twin EXCEPT !.err = "ValueError"]
                        ELSE DigStep([twin EXCEPT !.err = "none"], i, ord2)

TwinDigExhausted ==
    /\ constructed
    /\ ContainsNaN(Probabilities)
    /\ ExhaustedBody
    /\ twin' = IF ContainsNaN(TwinProbabilities)
                  THEN [twin EXCEPT !.err = "ValueError"]
                  ELSE twin

(***************************************************************************)
(* The queries.                                                            *)
(***************************************************************************)
\* a rendering that negates the array in place
RenderMapInPlace ==
    /\ constructed
    /\ op' = "render_map"
    /\ err' = "none"
    /\ empty' = [c \in Cells(width, height) |-> ~empty[c]]
    /\ ret' = [ret EXCEPT !.map = Str(empty', width, height),
                       !.walls = {}, !.pos = NoPosition]
    /\ UNCHANGED <<width, height, weights, current_position,
                   constructed, chosen_index, digs, twin>>
RenderMap ==
    /\ constructed
    /\ op' = "render_map"
    /\ err' = "none"
    /\ ret' = [ret EXCEPT !.map = Str(empty, width, height),
                       !.walls = {}, !.pos = NoPosition]
    /\ UNCHANGED <<width, height, empty, weights, current_position,
                   constructed, chosen_index, digs, twin>>

RenderWeights ==
    /\ constructed
    /\ op' = "weights"
    /\ err' = "none"
    /\ ret' = [ret EXCEPT !.weights = WeightsStr(weights, width, height),
                       !.walls = {}, !.pos = NoPosition]
    /\ UNCHANGED <<width, height, empty, weights, current_position,
                   constructed, chosen_index, digs, twin>>

QueryWalls ==
    /\ constructed
    /\ \E c \in Cells(width, height) :
          ret' = [NoRet EXCEPT
                     !.pos = c,
                     !.walls = NeighbouringWallPositions(empty, width, height,
                                                         c[1], c[2])]
    /\ op' = "neighbouring_wall_positions"
    /\ err' = "none"
    /\ UNCHANGED <<width, height, empty, weights, current_position,
                   constructed, chosen_index, digs, twin>>

\* the driver loop of lines 150-151: dig_next_square again and again
Next == DigNextSquare

Spec == Init /\ [][Next]_vars

\* the same with the renderings and the wall query called in between
NextView == DigNextSquare \/ RenderMap \/ RenderWeights \/ QueryWalls

SpecView == Init /\ [][NextView]_vars

NextTwin == TwinDigOk \/ TwinDigExhausted

SpecTwin == Init /\ [][NextTwin]_vars

\* the large grids, followed for MaxBigDigs digs
NextBig == DigOk

SpecBig == InitBig /\ [][NextBig]_vars

(***************************************************************************)
(* Vocabulary of the properties, stated on the arrays directly.            *)
(***************************************************************************)
Grid == Cells(width, height)

DugCells == {c \in Grid : empty[c]}

\* the in-bounds cells at offsets dx, dy in {-1, 0, 1} other than (0, 0)
Neighbours8(c) ==
    {q \in Grid : q # c /\ q[1] - c[1] \in -1..1 /\ q[2] - c[2] \in -1..1}

WallNeighbours(c) == {q \in Neighbours8(c) : ~empty[q]}

TotalWeight == Sum(Flatten(weights, width, height))

\* a step that is a successful dig_next_square call
SuccessfulDig == op' = "dig_next_square" /\ err' = "none" /\ digs' = digs + 1

(***************************************************************************)
(* C1: in every state reachable from construction by dig_next_square       *)
(* calls, a dug cell has weight 0 and a cell of positive weight is not     *)
(* dug.                                                                    *)
(***************************************************************************)
C1_DugHasZeroWeight ==
    constructed =>
        \A c \in Grid : /\ empty[c] => weights[c] = 0
                        /\ weights[c] > 0 => ~empty[c]

C1_Witness ==
    /\ constructed
    /\ op = "dig_next_square"
    /\ digs >= 2
    /\ \E c \in Grid : weights[c] > 0

(***************************************************************************)
(* C2: a successful dig_next_square call flips exactly one cell from wall  *)
(* to dug and no cell from dug to wall: the number of dug cells grows by   *)
(* exactly 1, and no step ever turns a dug cell back into a wall.          *)
(***************************************************************************)
C2_OneCellPerDig ==
    [][ /\ constructed => \A c \in Grid : empty[c] => empty'[c]
        /\ SuccessfulDig =>
              /\ Cardinality({c \in Grid : ~empty[c] /\ empty'[c]}) = 1
              /\ Cardinality({c \in Grid : empty'[c]}) = Cardinality(DugCells) + 1
      ]_vars

C2_Witness ==
    /\ op = "dig_next_square"
    /\ err = "none"
    /\ digs >= 1
    /\ Cardinality(DugCells) = digs + 1

(***************************************************************************)
(* C3: the cell dug by dig_next_square is in bounds, was a wall of         *)
(* strictly positive weight before the call, and is the cell whose weight  *)
(* stands at the drawn index of the flattened weights.                     *)
(***************************************************************************)
C3_DugCellWasCandidate ==
    [][ SuccessfulDig =>
          /\ current_position' \in Grid
          /\ weights[current_position'] > 0
          /\ ~empty[current_position']
          /\ empty'[current_position']
          /\ chosen_index' \in 0..(width * height - 1)
          /\ Flatten(weights, width, height)[chosen_index' + 1] > 0
          /\ Flatten([c \in Grid |-> c], width, height)[chosen_index' + 1]
                = current_position'
      ]_vars

C3_Witness ==
    /\ op = "dig_next_square"
    /\ err = "none"
    /\ digs >= 1
    /\ current_position[1] # current_position[2]
    /\ empty[current_position]

(***************************************************************************)
(* C4: dig_next_square called when the weights sum to 0 (as on a 1x1 grid  *)
(* right after construction) fails, the sampler raising ValueError on the  *)
(* nan probabilities, digs nothing and leaves both arrays unchanged.       *)
(***************************************************************************)
C4_ExhaustedLeavesState ==
    [][ (constructed /\ op' = "dig_next_square" /\ TotalWeight = 0) =>
          /\ err' = "ValueError"
          /\ UNCHANGED <<empty, weights, digs>>
      ]_vars

C4_Witness ==
    /\ width = 1
    /\ height = 1
    /\ op = "dig_next_square"
    /\ err = "ValueError"
    /\ digs = 0
    /\ DugCells = {<<0, 0>>}

(***************************************************************************)
(* C5: construction with width <= 0 or height <= 0 fails (numpy raises     *)
(* ValueError for a negative dimension, IndexError for the seed of an      *)
(* empty array): no engine results, the dimensions are not clamped and no  *)
(* seed cell is dug.                                                       *)
(***************************************************************************)
C5_InvalidDimensionsFail ==
    (width <= 0 \/ height <= 0) =>
        /\ ~constructed
        /\ err \in {"ValueError", "IndexError"}
        /\ op = "new"
        /\ \A c \in DOMAIN empty : ~empty[c]

C5_Witness ==
    /\ width = 0
    /\ height > 0
    /\ err = "IndexError"
    /\ ~constructed

(***************************************************************************)
(* C6: on a 5x5 grid, after construction only (2,2) is dug and its 8       *)
(* neighbours have weight 10; after one dig_next_square call exactly one   *)
(* of these neighbours is dug, with weight 0, and each of the other 7 has  *)
(* the weight of the tiering table for its current number of wall          *)
(* neighbours.                                                             *)
(***************************************************************************)
Centre5 == <<2, 2>>

TableWeight(n) ==
    IF n \in {2, 7} THEN 10
    ELSE IF n \in {3, 6} THEN 100
    ELSE IF n \in {4, 5} THEN 1000
    ELSE -1

C6_Scenario5x5 ==
    (width = 5 /\ height = 5) =>
        /\ digs = 0 =>
              /\ DugCells = {Centre5}
              /\ Cardinality(Neighbours8(Centre5)) = 8
              /\ \A c \in Neighbours8(Centre5) : weights[c] = 10
        /\ digs = 1 =>
              \E d \in Neighbours8(Centre5) :
                  /\ DugCells = {Centre5, d}
                  /\ weights[d] = 0
                  /\ \A c \in Neighbours8(Centre5) \ {d} :
                        weights[c] = TableWeight(Cardinality(WallNeighbours(c)))

C6_Witness ==
    /\ width = 5
    /\ height = 5
    /\ digs = 1
    /\ op = "dig_next_square"
    /\ \E c \in Neighbours8(Centre5) : weights[c] = 100

(***************************************************************************)
(* C7: two engines of the same dimensions fed the same draws hold the same *)
(* arrays and have dug the same cell after every call, whatever the order  *)
(* in which each of them iterates over its sets of neighbouring walls.     *)
(***************************************************************************)
C7_SameDrawsSameStates ==
    /\ twin.width = width
    /\ twin.height = height
    /\ twin.empty = empty
    /\ twin.weights = weights
    /\ twin.current_position = current_position
    /\ twin.err = err

C7_Witness ==
    /\ op = "dig_next_square"
    /\ err = "none"
    /\ digs >= 3
    /\ twin.current_position = current_position
    /\ \E c \in Grid : weights[c] >= 100

(***************************************************************************)
(* C8: every weight is one of 0, 1, 10, 100, 1000, so the rendering of     *)
(* the weights holds no '?'.                                               *)
(***************************************************************************)
Chars(s) == {s[i] : i \in 1..Len(s)}

C8_WeightsInGlyphTable ==
    constructed =>
        /\ \A c \in Grid : weights[c] \in {0, 1, 10, 100, 1000}
        /\ "?" \notin Chars(WeightsStr(weights, width, height))
        /\ "?" \notin Chars(ret.weights)

C8_Witness ==
    /\ op = "weights"
    /\ digs >= 1
    /\ {"X", "D", "M", " "} \subseteq Chars(ret.weights)

(***************************************************************************)
(* C9: rendering the map or the weights changes neither array, and a       *)
(* rendering repeated with no dig_next_square in between returns the same  *)
(* string as before.                                                       *)
(***************************************************************************)
C9_RenderingIsPure ==
    [][ /\ op' \in {"render_map", "weights"} => UNCHANGED <<empty, weights>>
        /\ (op' = "render_map" /\ ret.map # <<>>) => ret'.map = ret.map
        /\ (op' = "weights" /\ ret.weights # <<>>) => ret'.weights = ret.weights
      ]_vars

C9_Witness ==
    /\ op = "render_map"
    /\ digs >= 1
    /\ ret.map # <<>>
    /\ ret.weights # <<>>
    /\ "." \in Chars(ret.map)
    /\ "#" \in Chars(ret.map)

(***************************************************************************)
(* C10 as stated: the query returns exactly the in-bounds walls at the     *)
(* offsets dx, dy in {-1, 0, 1} other than (0, 0), never the queried cell  *)
(* itself, and changes neither array.                                      *)
(***************************************************************************)
C10_QueryExcludesSelf ==
    [][ op' = "neighbouring_wall_positions" =>
          /\ ret'.walls = {q \in Neighbours8(ret'.pos) : ~empty[q]}
          /\ ret'.pos \notin ret'.walls
          /\ UNCHANGED <<empty, weights>>
      ]_vars

(***************************************************************************)
(* C10 amended: the query returns exactly the in-bounds walls at the       *)
(* offsets dx, dy in {-1, 0, 1}, the offset (0, 0) included: the queried   *)
(* cell is a member of the result exactly when it is a wall.  The query    *)
(* changes neither array.                                                  *)
(***************************************************************************)
C10_QueryIncludesWallSelf ==
    [][ op' = "neighbouring_wall_positions" =>
          /\ ret'.walls = {q \in Neighbours8(ret'.pos) \cup {ret'.pos} : ~empty[q]}
          /\ ret'.pos \in ret'.walls <=> ~empty[ret'.pos]
          /\ UNCHANGED <<empty, weights>>
      ]_vars

C10_Witness ==
    /\ op = "neighbouring_wall_positions"
    /\ ret.pos \in ret.walls
    /\ Cardinality(ret.walls) >= 2
    /\ digs >= 1

(***************************************************************************)
(* C11: immediately after a cell is dug (the seed or by dig_next_square),  *)
(* every wall that is an 8-neighbour of it and has n wall neighbours, n in *)
(* 2..7 and the wall itself not counted, has weight 10 for n in {2, 7},    *)
(* 100 for n in {3, 6} and 1000 for n in {4, 5}.                           *)
(***************************************************************************)
WallCount(c) == Cardinality(WallNeighbours(c))

\* the state is the one a dig has just left
JustDug == constructed /\ err = "none" /\ op \in {"new", "dig_next_square"}

C11_TiersAfterDig ==
    JustDug =>
        \A c \in WallNeighbours(current_position) :
            WallCount(c) \in 2..7 => weights[c] = TableWeight(WallCount(c))

C11_Witness ==
    /\ JustDug
    /\ digs >= 2
    /\ \E c \in WallNeighbours(current_position) : WallCount(c) \in {2, 3}
    /\ \E c \in WallNeighbours(current_position) : WallCount(c) \in {4, 5}
    /\ \E c \in WallNeighbours(current_position) : WallCount(c) \in {6, 7}

(***************************************************************************)
(* C12: immediately after a cell is dug, a wall that is an 8-neighbour of  *)
(* it and whose number of wall neighbours is outside 2..7 has weight 1 if  *)
(* its weight was 0 before the dig and keeps its weight otherwise.  Before *)
(* the seed dig every weight is 0.                                         *)
(***************************************************************************)
\* the walls next to c, and their number, in the state a step leads to
WallNeighboursAfter(c) == {q \in Neighbours8(c) : ~empty'[q]}

WallCountAfter(c) == Cardinality(WallNeighboursAfter(c))

C12_BaselineOrKept ==
    /\ [](JustDug /\ op = "new" =>
             \A c \in WallNeighbours(current_position) :
                 WallCount(c) \notin 2..7 => weights[c] = 1)
    /\ [][ SuccessfulDig =>
             \A c \in WallNeighboursAfter(current_position') :
                 WallCountAfter(c) \notin 2..7 =>
                     weights'[c] = IF weights[c] = 0 THEN 1 ELSE weights[c]
         ]_vars

\* after a dig, one neighbouring wall outside the tiers holds a tiered
\* weight it was given earlier
C12_Witness ==
    /\ JustDug
    /\ op = "dig_next_square"
    /\ \E c \in WallNeighbours(current_position) :
          WallCount(c) \notin 2..7 /\ weights[c] >= 10

(***************************************************************************)
(* C13: a dig of a cell changes the dug value of that cell only, and the   *)
(* weight only of that cell and of the walls that are its 8-neighbours;    *)
(* every other cell keeps its dug value and its weight.  The seed dig      *)
(* starts from all walls and all weights 0.                                *)
(***************************************************************************)
C13_DigFrame ==
    /\ [](JustDug /\ op = "new" =>
             \A c \in Grid \ {current_position} :
                 /\ ~empty[c]
                 /\ c \notin WallNeighbours(current_position) => weights[c] = 0)
    /\ [][ SuccessfulDig =>
             \A c \in Grid \ {current_position'} :
                 /\ empty'[c] = empty[c]
                 /\ c \notin WallNeighboursAfter(current_position') =>
                       weights'[c] = weights[c]
         ]_vars

\* after a dig there are a candidate wall away from the dug cell and a dug
\* cell next to it, both left as they were
C13_Witness ==
    /\ JustDug
    /\ op = "dig_next_square"
    /\ \E c \in Grid \ ({current_position} \cup Neighbours8(current_position)) :
          weights[c] >= 10
    /\ \E c \in Neighbours8(current_position) : empty[c]

(***************************************************************************)
(* C14: whenever some wall has a dug cell among its 8-neighbours the sum   *)
(* of all weights is strictly positive, so dig_next_square does not fail   *)
(* on a zero sum while such a wall exists.                                 *)
(***************************************************************************)
\* the walls that touch the dug region
FrontierWalls == {c \in Grid : ~empty[c] /\ \E q \in Neighbours8(c) : empty[q]}

C14_FrontierHasWeight ==
    constructed =>
        /\ FrontierWalls # {} => TotalWeight > 0
        /\ (op = "dig_next_square" /\ err = "ValueError") => FrontierWalls = {}

\* after a dig a single wall is left at the frontier, with the baseline weight
C14_Witness ==
    /\ JustDug
    /\ op = "dig_next_square"
    /\ Cardinality(FrontierWalls) = 1
    /\ TotalWeight = 1

(***************************************************************************)
(* C15: right after construction with width > 0 and height > 0 exactly one *)
(* cell is dug, (width div 2, height div 2); its weight is 0, each of its  *)
(* in-bounds 8-neighbours has the positive weight the update of an         *)
(* ordinary dig gives it (its tier, or the baseline 1), and every other    *)
(* cell has weight 0.                                                      *)
(***************************************************************************)
SeedCell == <<width \div 2, height \div 2>>

C15_AfterConstruction ==
    (op = "new" /\ width > 0 /\ height > 0) =>
        /\ constructed
        /\ err = "none"
        /\ DugCells = {SeedCell}
        /\ current_position = SeedCell
        /\ weights[SeedCell] = 0
        /\ \A c \in Neighbours8(SeedCell) :
              /\ weights[c] > 0
              /\ weights[c] = IF WallCount(c) \in 2..7
                                 THEN TableWeight(WallCount(c)) ELSE 1
        /\ \A c \in Grid \ ({SeedCell} \cup Neighbours8(SeedCell)) : weights[c] = 0

C15_Witness ==
    /\ op = "new"
    /\ constructed
    /\ digs = 0
    /\ empty[SeedCell]
    /\ \E c \in Neighbours8(SeedCell) : weights[c] >= 10
    /\ \E c \in Grid \ ({SeedCell} \cup Neighbours8(SeedCell)) : weights[c] = 0

(***************************************************************************)
(* C16: the set of dug cells is 8-connected and contains the seed cell     *)
(* (width div 2, height div 2); every cell dug by dig_next_square had a    *)
(* dug cell among its 8-neighbours when it was dug.                        *)
(***************************************************************************)
\* the dug cells that can be reached from the cells of S through dug cells
RECURSIVE DugReach(_)
DugReach(S) ==
    LET T == S \cup {c \in DugCells : \E q \in S : c \in Neighbours8(q)}
    IN  IF T = S THEN S ELSE DugReach(T)

C16_DugRegionConnected ==
    /\ [](constructed => (SeedCell \in DugCells /\ DugReach({SeedCell}) = DugCells))
    /\ [][ SuccessfulDig =>
             \E q \in Neighbours8(current_position') : empty[q] ]_vars

\* a dug cell that is joined to the seed only through another dug cell
C16_Witness ==
    /\ JustDug
    /\ digs >= 2
    /\ \E c \in DugCells : c # SeedCell /\ c \notin Neighbours8(SeedCell)

(***************************************************************************)
(* C17: on a grid with width, height >= 1 the weights sum to 0 exactly     *)
(* when every cell is dug; dig_next_square succeeds as long as a wall is   *)
(* left, that is exactly width * height - 1 times after construction, and  *)
(* every call after that fails on the zero sum and changes nothing.        *)
(***************************************************************************)
\* the sampler has a cell to return and the model follows the dig
DigPossible ==
    /\ digs < DigCap
    /\ ~ContainsNaN(Probabilities)
    /\ Choice(Probabilities) # {}

C17_DigsUntilFull ==
    /\ [](constructed =>
             /\ TotalWeight = 0 <=> DugCells = Grid
             /\ digs = Cardinality(DugCells) - 1
             /\ digs <= width * height - 1
             /\ DugCells # Grid => DigPossible
             /\ DugCells = Grid => ~DigPossible
             /\ (op = "dig_next_square" /\ err = "ValueError") =>
                   (DugCells = Grid /\ digs = width * height - 1))
    /\ [][ (constructed /\ DugCells = Grid /\ op' = "dig_next_square") =>
             (err' = "ValueError" /\ UNCHANGED <<empty, weights, digs>>) ]_vars

\* a 3x3 grid dug out completely, and the call after that
C17_Witness ==
    /\ width = 3
    /\ height = 3
    /\ digs = 8
    /\ DugCells = Grid
    /\ op = "dig_next_square"
    /\ err = "ValueError"

(***************************************************************************)
(* C18: a cell has a positive weight exactly when it is a wall with at     *)
(* least one dug cell among its in-bounds 8-neighbours; a wall with no dug *)
(* neighbour has weight 0.                                                 *)
(***************************************************************************)
C18_WeightIffFrontier ==
    constructed =>
        \A c \in Grid : weights[c] > 0 <=> c \in FrontierWalls

\* after some digs there are walls at the frontier and walls away from it
C18_Witness ==
    /\ JustDug
    /\ digs >= 2
    /\ FrontierWalls # {}
    /\ \E c \in Grid \ FrontierWalls : ~empty[c] /\ weights[c] = 0

(***************************************************************************)
(* C19: in every state, not only right after the dig that touched it, a    *)
(* wall with a dug 8-neighbour whose current number n of wall neighbours   *)
(* lies in 2..7 has weight 10 for n in {2, 7}, 100 for n in {3, 6} and     *)
(* 1000 for n in {4, 5}; only a wall with n = 0 or 1 can hold another      *)
(* weight.                                                                 *)
(***************************************************************************)
C19_TiersNeverStale ==
    constructed =>
        \A c \in FrontierWalls :
            /\ WallCount(c) \in 2..7 => weights[c] = TableWeight(WallCount(c))
            /\ weights[c] \notin {10, 100, 1000} => WallCount(c) \in {0, 1}

\* a frontier wall away from the last dig still holds its tier, while a wall
\* with at most one wall neighbour holds a tier it was given earlier
C19_Witness ==
    /\ JustDug
    /\ digs >= 2
    /\ \E c \in FrontierWalls \ Neighbours8(current_position) :
          WallCount(c) \in 2..7 /\ weights[c] = TableWeight(WallCount(c))
    /\ \E c \in FrontierWalls : WallCount(c) \in {0, 1} /\ weights[c] >= 10

====
